---- MODULE Spec2Model ----
(***************************************************************************)
(* Foodgram backend: the relationship toggles (favorite, shopping cart,    *)
(* subscribe) of api/views.py, the recipe write pipeline of                *)
(* api/serializers.py, and the recipe reads, filter, shopping list and     *)
(* deletion of api/views.py, over the tables of recipes/models.py and      *)
(* users/models.py.  Every ORM call commits on its own (Django's           *)
(* autocommit; the sources open no transaction), so a handler is a         *)
(* sequence of steps that other requests may interleave with.              *)
(***************************************************************************)
EXTENDS Integers, Sequences, FiniteSets, TLC

\* ---------------------------------------------------------------- bounds
MaxAmount == 2
MaxCookingTime == 2

\* ------------------------------------------------------------- universe
Users == {"u1", "u2"}
NoUser == "nobody"
UserIds == Users \cup {"u404"}
RecipeIds == {"r1", "r2"}
Tags == {"t1", "t2"}
Ingredients == {"i1", "i2"}
Reqs == {"a", "b"}
WriteWorkers == {"a"}

VARIABLES favorites, shopping_cart, subscriptions, recipes, treq, wreq,
          vin, vout, read

vars == <<favorites, shopping_cart, subscriptions, recipes, treq, wreq,
          vin, vout, read>>

\* ------------------------------------------------------------ responses
Resp(code, detail) == [code |-> code, detail |-> detail]
NoResp == Resp(0, "none")
Created == Resp(201, "Created")
NoContent == Resp(204, "NoContent")
Conflict == Resp(400, "Conflict")
NotFound == Resp(400, "NotFound")
InvalidOperation == Resp(400, "InvalidOperation")
Http404 == Resp(404, "Http404")
IntegrityError == Resp(500, "IntegrityError")

\* --------------------------------------------------------------- tables
\* A join table holds, for each (user, target) pair, the number of its rows.
EmptyTable(targets) == [k \in Users \X targets |-> 0]

\* QuerySet.filter(user=..., <target>=...).exists()
Exists(table, u, t) == table[<<u, t>>] > 0

NoUniqueConstraint(table, u, t) == FALSE

\* The UniqueConstraint of Favorite, ShoppingCart and Subscription: an INSERT
\* of a pair that already has a row is refused (IntegrityError).
UniqueViolation(table, u, t) == table[<<u, t>>] >= 1

\* Manager.create(): one INSERT.
InsertRow(table, u, t) == [table EXCEPT ![<<u, t>>] = @ + 1]

DeleteNothing(table, u, t) == table

\* QuerySet.delete(): deletes every matching row, none included.
DeleteRows(table, u, t) == [table EXCEPT ![<<u, t>>] = 0]

\* ------------------------------------------------------------- recipes
Recipe(author, cooking_time, tags, ingredients) ==
    [author |-> author, cooking_time |-> cooking_time, tags |-> tags,
     ingredients |-> ingredients]
NoRecipe == Recipe(NoUser, 0, {}, <<>>)
Row(i, amount) == [id |-> i, amount |-> amount]

\* get_object(): the recipe row exists.
RecipeExists(id) == recipes[id].author # NoUser

\* ------------------------------------------------------ toggle requests
\* One slot per request in flight: the endpoint, the HTTP method, the
\* authenticated user, the target, the handler's position, its response and
\* the number of rows it has inserted or deleted so far.
ToggleReq(rel, method, user, target, pc, resp, changed) ==
    [rel |-> rel, method |-> method, user |-> user, target |-> target,
     pc |-> pc, resp |-> resp, changed |-> changed]
IdleT == ToggleReq("none", "none", NoUser, "none", "idle", NoResp, 0)

Methods == {"POST", "DELETE"}

Finish(r, resp, changed) ==
    treq' = [treq EXCEPT ![r].pc = "done", ![r].resp = resp,
                         ![r].changed = changed]

\* The head of a recipe toggle: get_object(), then the existence query of
\* the branch the method selects.
RecipeToggleCheck(r, rel, table, method, u, t) ==
    LET q == ToggleReq(rel, method, u, t, "check", NoResp, 0) IN
    IF ~RecipeExists(t)
    THEN treq' = [treq EXCEPT ![r] = [q EXCEPT !.pc = "done", !.resp = Http404]]
    ELSE IF method = "POST"
    THEN IF Exists(table, u, t)
         THEN treq' = [treq EXCEPT ![r] =
                          [q EXCEPT !.pc = "done", !.resp = Conflict]]
         ELSE treq' = [treq EXCEPT ![r] = [q EXCEPT !.pc = "create"]]
    ELSE IF Exists(table, u, t)
         THEN treq' = [treq EXCEPT ![r] = [q EXCEPT !.pc = "delete"]]
         ELSE treq' = [treq EXCEPT ![r] =
                          [q EXCEPT !.pc = "done", !.resp = NotFound]]

At(r, rel, pc) == treq[r].rel = rel /\ treq[r].pc = pc

\* RecipeViewSet.favorite -------------------------------------------------
favorite_check(r) ==
    /\ treq[r].pc = "idle"
    /\ \E method \in Methods, u \in Users, t \in RecipeIds :
          RecipeToggleCheck(r, "favorite", favorites, method, u, t)
    /\ UNCHANGED <<favorites, shopping_cart, subscriptions, recipes>>
    /\ UNCHANGED <<wreq, vin, vout, read>>

NoForeignKey(t) == FALSE

\* recipe = ForeignKey(Recipe, on_delete=CASCADE): an INSERT of a row whose
\* recipe is gone is refused (IntegrityError).
ForeignKeyViolation(t) == ~RecipeExists(t)

\* Favorite.objects.create(user, recipe)
favorite_create(r) ==
    /\ At(r, "favorite", "create")
    /\ IF \/ UniqueViolation(favorites, treq[r].user, treq[r].target)
          \/ ForeignKeyViolation(treq[r].target)
       THEN /\ Finish(r, IntegrityError, 0)
            /\ UNCHANGED favorites
       ELSE /\ favorites' = InsertRow(favorites, treq[r].user, treq[r].target)
            /\ Finish(r, Created, 1)
    /\ UNCHANGED <<shopping_cart, subscriptions, recipes>>
    /\ UNCHANGED <<wreq, vin, vout, read>>

\* favorite_item.delete()
favorite_delete(r) ==
    /\ At(r, "favorite", "delete")
    /\ favorites' = DeleteRows(favorites, treq[r].user, treq[r].target)
    /\ Finish(r, NoContent, favorites[<<treq[r].user, treq[r].target>>])
    /\ UNCHANGED <<shopping_cart, subscriptions, recipes>>
    /\ UNCHANGED <<wreq, vin, vout, read>>

\* RecipeViewSet.shopping_cart --------------------------------------------
shopping_cart_check(r) ==
    /\ treq[r].pc = "idle"
    /\ \E method \in Methods, u \in Users, t \in RecipeIds :
          RecipeToggleCheck(r, "shopping_cart", shopping_cart, method, u, t)
    /\ UNCHANGED <<favorites, shopping_cart, subscriptions, recipes>>
    /\ UNCHANGED <<wreq, vin, vout, read>>

\* ShoppingCart.objects.get_or_create(user, recipe): the row found is
\* returned, and only a missing one is inserted; 201 either way.  An INSERT
\* that the database refuses, with no row to return, raises.
shopping_cart_get_or_create(r) ==
    /\ At(r, "shopping_cart", "create")
    /\ IF Exists(shopping_cart, treq[r].user, treq[r].target)
       THEN /\ Finish(r, Created, 0)
            /\ UNCHANGED shopping_cart
       ELSE IF ForeignKeyViolation(treq[r].target)
       THEN /\ Finish(r, IntegrityError, 0)
            /\ UNCHANGED shopping_cart
       ELSE /\ shopping_cart' =
                   InsertRow(shopping_cart, treq[r].user, treq[r].target)
            /\ Finish(r, Created, 1)
    /\ UNCHANGED <<favorites, subscriptions, recipes>>
    /\ UNCHANGED <<wreq, vin, vout, read>>

\* shopping_cart_item.delete()
shopping_cart_delete(r) ==
    /\ At(r, "shopping_cart", "delete")
    /\ shopping_cart' = DeleteRows(shopping_cart, treq[r].user, treq[r].target)
    /\ Finish(r, NoContent, shopping_cart[<<treq[r].user, treq[r].target>>])
    /\ UNCHANGED <<favorites, subscriptions, recipes>>
    /\ UNCHANGED <<wreq, vin, vout, read>>

\* UserViewSet.subscribe --------------------------------------------------
SelfCheckOnPostOnly(method, u, t) == method = "POST" /\ t = u

\* user_to_subscribe == request.user, tested before the method is looked at
IsSelfSubscribe(method, u, t) == t = u

subscribe_check(r) ==
    /\ treq[r].pc = "idle"
    /\ \E method \in Methods, u \in Users, t \in UserIds :
          LET q == ToggleReq("subscribe", method, u, t, "check", NoResp, 0) IN
          IF t \notin Users
          THEN treq' = [treq EXCEPT ![r] =
                           [q EXCEPT !.pc = "done", !.resp = Http404]]
          ELSE IF IsSelfSubscribe(method, u, t)
          THEN treq' = [treq EXCEPT ![r] =
                           [q EXCEPT !.pc = "done", !.resp = InvalidOperation]]
          ELSE IF method = "POST"
          THEN IF Exists(subscriptions, u, t)
               THEN treq' = [treq EXCEPT ![r] =
                                [q EXCEPT !.pc = "done", !.resp = Conflict]]
               ELSE treq' = [treq EXCEPT ![r] = [q EXCEPT !.pc = "create"]]
          ELSE IF Exists(subscriptions, u, t)
               THEN treq' = [treq EXCEPT ![r] = [q EXCEPT !.pc = "delete"]]
               ELSE treq' = [treq EXCEPT ![r] =
                                [q EXCEPT !.pc = "done", !.resp = NotFound]]
    /\ UNCHANGED <<favorites, shopping_cart, subscriptions, recipes>>
    /\ UNCHANGED <<wreq, vin, vout, read>>

\* Subscription.objects.create(user, subscribed_to)
subscribe_create(r) ==
    /\ At(r, "subscribe", "create")
    /\ IF UniqueViolation(subscriptions, treq[r].user, treq[r].target)
       THEN /\ Finish(r, IntegrityError, 0)
            /\ UNCHANGED subscriptions
       ELSE /\ subscriptions' =
                   InsertRow(subscriptions, treq[r].user, treq[r].target)
            /\ Finish(r, Created, 1)
    /\ UNCHANGED <<favorites, shopping_cart, recipes>>
    /\ UNCHANGED <<wreq, vin, vout, read>>

\* subscription.delete()
subscribe_delete(r) ==
    /\ At(r, "subscribe", "delete")
    /\ subscriptions' = DeleteRows(subscriptions, treq[r].user, treq[r].target)
    /\ Finish(r, NoContent, subscriptions[<<treq[r].user, treq[r].target>>])
    /\ UNCHANGED <<favorites, shopping_cart, recipes>>
    /\ UNCHANGED <<wreq, vin, vout, read>>

\* The response is sent and the worker takes the next request.
ToggleRespond(r) ==
    /\ treq[r].pc = "done"
    /\ treq' = [treq EXCEPT ![r] = IdleT]
    /\ UNCHANGED <<favorites, shopping_cart, subscriptions, recipes>>
    /\ UNCHANGED <<wreq, vin, vout, read>>

\* ================================================= recipe write pipeline
\* ------------------------------------------------------- request bodies
SeqsUpTo(S, n) == UNION {[1..k -> S] : k \in 0..n}

\* The fields of a request body that the pipeline validates and writes; a
\* field that the body omits has has_<field> = FALSE.  Every ingredient
\* entry carries both of its keys and names a stored Ingredient.
Data(ht, tags, hi, ingredients, hc, cooking_time) ==
    [has_tags |-> ht, tags |-> tags,
     has_ingredients |-> hi, ingredients |-> ingredients,
     has_cooking_time |-> hc, cooking_time |-> cooking_time]
NoData == Data(FALSE, <<>>, FALSE, <<>>, FALSE, 0)

\* Lists as long as the catalogue they draw from: every list without a
\* repeat, and the shortest lists with one.
TagInputs == SeqsUpTo(Tags, Cardinality(Tags))
IngredientInputs ==
    SeqsUpTo([id : Ingredients, amount : 0..MaxAmount],
             Cardinality(Ingredients))
CookingTimeInputs == 0..MaxCookingTime

Inputs ==
    {Data(ht, IF ht THEN t ELSE <<>>, hi, IF hi THEN i ELSE <<>>,
          hc, IF hc THEN c ELSE 0) :
        ht \in BOOLEAN, t \in TagInputs, hi \in BOOLEAN,
        i \in IngredientInputs, hc \in BOOLEAN, c \in CookingTimeInputs}

Range(seq) == {seq[j] : j \in DOMAIN seq}

\* len(xs) != len(set(xs))
HasDuplicates(seq) == Len(seq) # Cardinality(Range(seq))

\* ------------------------------------------------------------ validation
\* An error is named by the rule that raised it.
\* RecipeCreateSerializer.validate_tags (tag names are unique, so names
\* repeat exactly when the tags do)
validate_tags(value) ==
    IF value = <<>> THEN {"tags_empty"}
    ELSE IF HasDuplicates(value) THEN {"tags_duplicate"}
    ELSE {}

\* IngredientAmountSerializer.validate_amount
validate_amount(value) ==
    IF value <= 0 THEN {"amount_positive"} ELSE {}

validate_cooking_time_nonnegative(value) ==
    IF value < 0 THEN {"cooking_time_min"} ELSE {}

\* RecipeCreateSerializer.validate_cooking_time
validate_cooking_time(value) ==
    IF value < 1 THEN {"cooking_time_min"} ELSE {}

\* Serializer.to_internal_value: every field is run through its validators
\* and the errors of all fields are collected; a field the body omits is
\* an error unless the update is partial.
to_internal_value(data, partial) ==
    (IF data.has_tags THEN validate_tags(data.tags)
     ELSE IF partial THEN {} ELSE {"tags_required"})
    \cup
    (IF data.has_ingredients
     THEN UNION {validate_amount(data.ingredients[j].amount) :
                    j \in DOMAIN data.ingredients}
     ELSE IF partial THEN {} ELSE {"ingredients_required"})
    \cup
    (IF data.has_cooking_time THEN validate_cooking_time(data.cooking_time)
     ELSE IF partial THEN {} ELSE {"cooking_time_required"})

\* RecipeCreateSerializer.validate: the object-level checks, each raising
\* on its own, in the order of the code.
validate(data) ==
    IF ~data.has_ingredients \/ data.ingredients = <<>>
    THEN {"ingredients_empty"}
    ELSE IF \E j \in DOMAIN data.ingredients :
               ~({"id", "amount"} \subseteq DOMAIN data.ingredients[j])
    THEN {"ingredients_keys"}
    ELSE IF HasDuplicates([j \in DOMAIN data.ingredients |->
                              data.ingredients[j].id])
    THEN {"ingredients_duplicate"}
    ELSE IF ~data.has_tags \/ data.tags = <<>>
    THEN {"tags_empty"}
    ELSE {}

run_validation_object_rules_first(data, partial) ==
    IF validate(data) # {} THEN validate(data)
    ELSE to_internal_value(data, partial)

\* Serializer.run_validation: validate() runs only when no field failed.
run_validation(data, partial) ==
    LET field_errors == to_internal_value(data, partial) IN
    IF field_errors # {} THEN field_errors ELSE validate(data)

\* -------------------------------------------------------- write requests
ValidationError == Resp(400, "ValidationError")
Forbidden == Resp(403, "Forbidden")
Ok == Resp(200, "OK")
Crashed == Resp(500, "Crashed")

\* The users that send write requests.
Writers == {"u1"}

TagName == [t \in Tags |-> IF t = "t1" THEN "breakfast" ELSE "dinner"]
IngredientName == [i \in Ingredients |-> IF i = "i1" THEN "salt" ELSE "eggs"]
MeasurementUnit == [i \in Ingredients |-> IF i = "i1" THEN "g" ELSE "pcs"]

\* TagSerializer
TagView(t) == [id |-> t, name |-> TagName[t]]

\* IngredientInRecipeSerializer
IngredientInRecipeView(row) ==
    [id |-> row.id, name |-> IngredientName[row.id],
     measurement_unit |-> MeasurementUnit[row.id], amount |-> row.amount]

View(id, author, cooking_time, tags, ingredients, fav, cart) ==
    [id |-> id, author |-> author, cooking_time |-> cooking_time,
     tags |-> tags, ingredients |-> ingredients,
     is_favorited |-> fav, is_in_shopping_cart |-> cart]
NoBody == View("none", NoUser, 0, {}, <<>>, FALSE, FALSE)

ProjectForAnyUser(id, viewer) ==
    View(id, recipes[id].author, recipes[id].cooking_time,
         {TagView(t) : t \in recipes[id].tags},
         [j \in DOMAIN recipes[id].ingredients |->
             IngredientInRecipeView(recipes[id].ingredients[j])],
         \E u \in Users : favorites[<<u, id>>] > 0,
         \E u \in Users : shopping_cart[<<u, id>>] > 0)

\* RecipeListSerializer: the read projection of a stored recipe for a
\* viewer; the ingredient rows come in the order they were inserted.
Project(id, viewer) ==
    View(id, recipes[id].author, recipes[id].cooking_time,
         {TagView(t) : t \in recipes[id].tags},
         [j \in DOMAIN recipes[id].ingredients |->
             IngredientInRecipeView(recipes[id].ingredients[j])],
         viewer \in Users /\ favorites[<<viewer, id>>] > 0,
         viewer \in Users /\ shopping_cart[<<viewer, id>>] > 0)

\* One slot per write request: method, user, recipe id, validated body,
\* position, ingredient loop counter, the instance loaded by get_object(),
\* and the response with its field errors or its body.
WriteReq(method, user, id, data, pc, k, instance, resp, errors, body) ==
    [method |-> method, user |-> user, id |-> id, data |-> data, pc |-> pc,
     k |-> k, instance |-> instance, resp |-> resp, errors |-> errors,
     body |-> body]
IdleW == WriteReq("none", NoUser, "none", NoData, "idle", 0, NoRecipe,
                   NoResp, {}, NoBody)

\* The primary key the next INSERT INTO recipe gets.
NewId == CHOOSE id \in RecipeIds : ~RecipeExists(id)

\* IsAuthor.has_object_permission
IsAuthor(u, id) == recipes[id].author = u

TagsSetMerging(old, tags) == old \cup Range(tags)

\* recipe.tags.set(tags): the recipe's tags become exactly the given ones.
TagsSet(old, tags) == Range(tags)

\* instance.ingredients.clear(): every IngredientInRecipe row of the recipe
\* is deleted.
Clear(rows) == <<>>

CreateRowFirst(rows, i, amount) == <<Row(i, amount)>> \o rows

\* IngredientInRecipe.objects.create(recipe, ingredient, amount)
CreateRow(rows, i, amount) == Append(rows, Row(i, amount))

\* IngredientInRecipe.objects.update_or_create(recipe, ingredient,
\* defaults={"amount": amount}): the row of the ingredient, if the recipe has
\* one, gets the amount; otherwise a row is inserted.
UpdateOrCreateRow(rows, i, amount) ==
    IF \E j \in DOMAIN rows : rows[j].id = i
    THEN [j \in DOMAIN rows |->
             IF rows[j].id = i THEN Row(i, amount) ELSE rows[j]]
    ELSE Append(rows, Row(i, amount))

Tables == <<favorites, shopping_cart, subscriptions>>

\* RecipeViewSet.create: is_valid(raise_exception=True) ------------------
create_validate(r) ==
    /\ wreq[r].pc = "idle"
    /\ \E u \in Writers, d \in Inputs :
          LET errs == run_validation(d, FALSE)
              q == WriteReq("POST", u, "none", d, "create", 0, NoRecipe,
                            NoResp, {}, NoBody)
          IN  IF errs # {}
              THEN wreq' = [wreq EXCEPT ![r] =
                      [q EXCEPT !.pc = "done", !.resp = ValidationError,
                                !.errors = errs]]
              ELSE /\ \E id \in RecipeIds : ~RecipeExists(id)
                   /\ wreq' = [wreq EXCEPT ![r] = q]
    /\ UNCHANGED recipes
    /\ UNCHANGED <<Tables, treq, vin, vout, read>>

\* Recipe.objects.create(author=author, **validated_data)
create_recipe(r) ==
    /\ wreq[r].pc = "create"
    /\ recipes' = [recipes EXCEPT ![NewId] =
                      Recipe(wreq[r].user, wreq[r].data.cooking_time,
                             {}, <<>>)]
    /\ wreq' = [wreq EXCEPT ![r].id = NewId, ![r].pc = "tags"]
    /\ UNCHANGED <<Tables, treq, vin, vout, read>>

\* recipe.tags.set(tags)
create_set_tags(r) ==
    /\ wreq[r].pc = "tags"
    /\ recipes' = [recipes EXCEPT ![wreq[r].id].tags =
                      TagsSet(@, wreq[r].data.tags)]
    /\ wreq' = [wreq EXCEPT ![r].pc =
                   IF wreq[r].data.ingredients = <<>> THEN "respond"
                   ELSE "ingredients"]
    /\ UNCHANGED <<Tables, treq, vin, vout, read>>

\* one turn of the loop: IngredientInRecipe.objects.create(...)
create_ingredient(r) ==
    /\ wreq[r].pc = "ingredients"
    /\ LET e == wreq[r].data.ingredients[wreq[r].k + 1] IN
       recipes' = [recipes EXCEPT ![wreq[r].id].ingredients =
                      CreateRow(@, e.id, e.amount)]
    /\ wreq' = [wreq EXCEPT
          ![r].k = @ + 1,
          ![r].pc = IF wreq[r].k + 1 = Len(wreq[r].data.ingredients)
                    THEN "respond" ELSE "ingredients"]
    /\ UNCHANGED <<Tables, treq, vin, vout, read>>

\* Response(serializer.data, 201): to_representation of the new recipe
create_respond(r) ==
    /\ wreq[r].pc = "respond"
    /\ wreq' = [wreq EXCEPT ![r].pc = "done", ![r].resp = Created,
                            ![r].body = Project(wreq[r].id, wreq[r].user)]
    /\ UNCHANGED recipes
    /\ UNCHANGED <<Tables, treq, vin, vout, read>>

\* RecipeViewSet.partial_update: get_object(), IsAuthor, is_valid() ------
update_validate(r) ==
    /\ wreq[r].pc = "idle"
    /\ \E u \in Writers, id \in RecipeIds :
          LET q == WriteReq("PATCH", u, id, NoData, "done", 0, NoRecipe,
                            NoResp, {}, NoBody)
          IN  IF ~RecipeExists(id)
              THEN wreq' = [wreq EXCEPT ![r] = [q EXCEPT !.resp = Http404]]
              ELSE IF ~IsAuthor(u, id)
              THEN wreq' = [wreq EXCEPT ![r] = [q EXCEPT !.resp = Forbidden]]
              ELSE \E d \in Inputs :
                     LET errs == run_validation(d, TRUE) IN
                     IF errs # {}
                     THEN wreq' = [wreq EXCEPT ![r] =
                             [q EXCEPT !.data = d, !.resp = ValidationError,
                                       !.errors = errs]]
                     ELSE wreq' = [wreq EXCEPT ![r] =
                             [q EXCEPT !.data = d, !.pc = "utags",
                                       !.instance = recipes[id]]]
    /\ UNCHANGED recipes
    /\ UNCHANGED <<Tables, treq, vin, vout, read>>

\* if tags is not None: instance.tags.set(tags)
update_set_tags(r) ==
    /\ wreq[r].pc = "utags"
    /\ recipes' = [recipes EXCEPT ![wreq[r].id].tags =
                      IF wreq[r].data.has_tags
                      THEN TagsSet(@, wreq[r].data.tags) ELSE @]
    /\ wreq' = [wreq EXCEPT ![r].pc = "uclear"]
    /\ UNCHANGED <<Tables, treq, vin, vout, read>>

\* if ingredients is not None: instance.ingredients.clear()
update_clear(r) ==
    /\ wreq[r].pc = "uclear"
    /\ recipes' = [recipes EXCEPT ![wreq[r].id].ingredients =
                      IF wreq[r].data.has_ingredients THEN Clear(@) ELSE @]
    /\ wreq' = [wreq EXCEPT ![r].pc =
                   IF wreq[r].data.ingredients = <<>> THEN "usave"
                   ELSE "uingredients"]
    /\ UNCHANGED <<Tables, treq, vin, vout, read>>

\* one turn of the loop: IngredientInRecipe.objects.update_or_create(...)
update_ingredient(r) ==
    /\ wreq[r].pc = "uingredients"
    /\ LET e == wreq[r].data.ingredients[wreq[r].k + 1] IN
       recipes' = [recipes EXCEPT ![wreq[r].id].ingredients =
                      UpdateOrCreateRow(@, e.id, e.amount)]
    /\ wreq' = [wreq EXCEPT
          ![r].k = @ + 1,
          ![r].pc = IF wreq[r].k + 1 = Len(wreq[r].data.ingredients)
                    THEN "usave" ELSE "uingredients"]
    /\ UNCHANGED <<Tables, treq, vin, vout, read>>

\* super().update(instance, validated_data): the fields left in
\* validated_data are set on the instance loaded by get_object(), which is
\* then saved.
update_save(r) ==
    /\ wreq[r].pc = "usave"
    /\ recipes' = [recipes EXCEPT
          ![wreq[r].id].author = wreq[r].instance.author,
          ![wreq[r].id].cooking_time =
              IF wreq[r].data.has_cooking_time
              THEN wreq[r].data.cooking_time
              ELSE wreq[r].instance.cooking_time]
    /\ wreq' = [wreq EXCEPT ![r].pc = "urespond"]
    /\ UNCHANGED <<Tables, treq, vin, vout, read>>

\* Response(serializer.data): to_representation of the updated recipe
update_respond(r) ==
    /\ wreq[r].pc = "urespond"
    /\ wreq' = [wreq EXCEPT ![r].pc = "done", ![r].resp = Ok,
                            ![r].body = Project(wreq[r].id, wreq[r].user)]
    /\ UNCHANGED recipes
    /\ UNCHANGED <<Tables, treq, vin, vout, read>>

Writing == {"create", "tags", "ingredients", "respond",
            "utags", "uclear", "uingredients", "usave", "urespond"}

\* The worker dies between two statements of create() or update(): what it
\* has written so far stays (each statement has committed on its own).
Crash(r) ==
    /\ wreq[r].pc \in Writing
    /\ wreq' = [wreq EXCEPT ![r].pc = "done", ![r].resp = Crashed]
    /\ UNCHANGED recipes
    /\ UNCHANGED <<Tables, treq, vin, vout, read>>

\* The response is sent and the worker takes the next request.
WriteRespond(r) ==
    /\ wreq[r].pc = "done"
    /\ wreq' = [wreq EXCEPT ![r] = IdleW]
    /\ UNCHANGED recipes
    /\ UNCHANGED <<Tables, treq, vin, vout, read>>

\* RecipeViewSet.update (PUT) ---------------------------------------------
AssertionError == Resp(500, "AssertionError")

\* get_permissions() leaves PUT with IsAuthenticatedOrReadOnly and
\* get_serializer_class() gives it RecipeListSerializer, whose writable
\* nested field `ingredients` makes ModelSerializer.update() raise once the
\* body has passed validation.
update_put(r) ==
    /\ wreq[r].pc = "idle"
    /\ \E u \in Users, id \in RecipeIds, valid \in BOOLEAN :
          LET q == WriteReq("PUT", u, id, NoData, "done", 0, NoRecipe,
                            NoResp, {}, NoBody)
          IN  IF ~RecipeExists(id)
              THEN wreq' = [wreq EXCEPT ![r] = [q EXCEPT !.resp = Http404]]
              ELSE IF ~valid
              THEN wreq' = [wreq EXCEPT ![r] =
                      [q EXCEPT !.resp = ValidationError,
                                !.instance = recipes[id]]]
              ELSE wreq' = [wreq EXCEPT ![r] =
                      [q EXCEPT !.resp = AssertionError,
                                !.instance = recipes[id]]]
    /\ UNCHANGED recipes
    /\ UNCHANGED <<Tables, treq, vin, vout, read>>

\* RecipeViewSet.destroy (DELETE): get_object(), IsAuthor -----------------
destroy_check(r) ==
    /\ wreq[r].pc = "idle"
    /\ \E u \in Users, id \in RecipeIds :
          LET q == WriteReq("DELETE", u, id, NoData, "done", 0, NoRecipe,
                            NoResp, {}, NoBody)
          IN  IF ~RecipeExists(id)
              THEN wreq' = [wreq EXCEPT ![r] = [q EXCEPT !.resp = Http404]]
              ELSE IF ~IsAuthor(u, id)
              THEN wreq' = [wreq EXCEPT ![r] =
                      [q EXCEPT !.resp = Forbidden,
                                !.instance = recipes[id]]]
              ELSE wreq' = [wreq EXCEPT ![r] =
                      [q EXCEPT !.pc = "destroy", !.instance = recipes[id]]]
    /\ UNCHANGED recipes
    /\ UNCHANGED <<Tables, treq, vin, vout, read>>

\* on_delete=CASCADE: the rows of the table that refer to the recipe go
\* with it.
Cascade(table, id) ==
    [k \in DOMAIN table |-> IF k[2] = id THEN 0 ELSE table[k]]

\* instance.delete(): the recipe, its IngredientInRecipe rows, its tag
\* links and its Favorite and ShoppingCart rows are deleted in one
\* transaction.
destroy_delete(r) ==
    /\ wreq[r].pc = "destroy"
    /\ recipes' = [recipes EXCEPT ![wreq[r].id] = NoRecipe]
    /\ favorites' = Cascade(favorites, wreq[r].id)
    /\ shopping_cart' = Cascade(shopping_cart, wreq[r].id)
    /\ wreq' = [wreq EXCEPT ![r].pc = "done", ![r].resp = NoContent]
    /\ UNCHANGED <<subscriptions, treq, vin, vout, read>>

\* ================================================================ reads
Anonymous == "anonymous"
Viewers == Users \cup {Anonymous}
Unauthorized == Resp(401, "Unauthorized")

RECURSIVE Sum(_, _)
\* The sum of f over the set S.
Sum(f, S) ==
    IF S = {} THEN 0
    ELSE LET x == CHOOSE y \in S : TRUE IN f[x] + Sum(f, S \ {x})

\* ------------------------------------------- shopping-list aggregation
\* The IngredientInRecipe rows: (recipe, position among the recipe's rows).
IngredientRows ==
    UNION {{<<id, j>> : j \in DOMAIN recipes[id].ingredients} :
              id \in RecipeIds}

RowOf(row) == recipes[row[1]].ingredients[row[2]]

JoinCountAnyUser(u, row) ==
    Sum([v \in Users |-> shopping_cart[<<v, row[1]>>]], Users)

\* filter(recipe__shopping_cart__user=user): the join gives a row once for
\* each ShoppingCart row of the user on the row's recipe.
JoinCount(u, row) == shopping_cart[<<u, row[1]>>]

\* annotate(ingredient_total=Sum('amount')) within the group of one
\* ingredient.
IngredientTotal(u, i) ==
    Sum([row \in IngredientRows |->
            IF RowOf(row).id = i THEN RowOf(row).amount * JoinCount(u, row)
            ELSE 0],
        IngredientRows)

\* The ingredient names in the order ORDER BY ingredient__name gives them.
Alphabet == <<"eggs", "salt">>

NameRank(name) == CHOOSE j \in DOMAIN Alphabet : Alphabet[j] = name

\* The ingredients in the order of their names.
ByName ==
    [j \in DOMAIN Alphabet |->
        CHOOSE i \in Ingredients : IngredientName[i] = Alphabet[j]]

InGroup(u, i) ==
    \E row \in IngredientRows : RowOf(row).id = i /\ JoinCount(u, row) > 0

Line(u, i) ==
    [name |-> IngredientName[i], total |-> IngredientTotal(u, i),
     unit |-> MeasurementUnit[i]]

\* The query of download_shopping_cart: one group per (name, unit) that has
\* a joined row, in the order of the names, each with its total.
aggregate(u) ==
    LET groups == SelectSeq(ByName, LAMBDA i : InGroup(u, i)) IN
    [j \in DOMAIN groups |-> Line(u, groups[j])]

\* ------------------------------------------------------ recipe filter
TagSlug == [t \in Tags |-> IF t = "t1" THEN "breakfast" ELSE "dinner"]
Slugs == {TagSlug[t] : t \in Tags}

\* The query parameters: is_favorited == '1', is_in_shopping_cart == '1',
\* author (NoUser when absent) and the list of tags (empty when absent).
Params(fav, cart, author, tags) ==
    [is_favorited |-> fav, is_in_shopping_cart |-> cart, author |-> author,
     tags |-> tags]
NoParams == Params(FALSE, FALSE, NoUser, {})
AllParams ==
    {Params(f, c, a, t) : f \in BOOLEAN, c \in BOOLEAN,
                          a \in Users \cup {NoUser}, t \in SUBSET Slugs}

\* Recipe.objects.all().order_by('id')
IdOrder == <<"r1", "r2">>

KeepDuplicates(n) == n

\* .distinct(): a recipe that the joins give several times is kept once.
Distinct(n) == IF n > 0 THEN 1 ELSE 0

\* The number of rows the chained filter() joins give for one recipe.
Matches(viewer, params, id) ==
    (IF params.is_favorited /\ viewer \in Users
     THEN favorites[<<viewer, id>>] ELSE 1)
    * (IF params.is_in_shopping_cart /\ viewer \in Users
       THEN shopping_cart[<<viewer, id>>] ELSE 1)
    * (IF params.author # NoUser
       THEN (IF recipes[id].author = params.author THEN 1 ELSE 0) ELSE 1)
    * (IF params.tags # {}
       THEN Cardinality({t \in recipes[id].tags :
                            TagSlug[t] \in params.tags})
       ELSE 1)

RECURSIVE Flatten(_)
Flatten(seqs) ==
    IF seqs = <<>> THEN <<>> ELSE Head(seqs) \o Flatten(Tail(seqs))

\* RecipeViewSet.get_queryset: the ids of the rows of the filtered query,
\* which is made distinct when tags are given.
get_queryset(viewer, params) ==
    Flatten([j \in DOMAIN IdOrder |->
        IF ~RecipeExists(IdOrder[j]) THEN <<>>
        ELSE LET m == Matches(viewer, params, IdOrder[j]) IN
             [n \in 1..(IF params.tags # {} THEN Distinct(m) ELSE m) |->
                 IdOrder[j]]])

\* ------------------------------------------------------ read requests
\* The read request served last: the endpoint, the viewer, the query
\* parameters or the recipe id, and the response with its body.
ReadResp(op, viewer, params, id, resp, result) ==
    [op |-> op, viewer |-> viewer, params |-> params, id |-> id,
     resp |-> resp, result |-> result]
NoRead == ReadResp("none", NoUser, NoParams, "none", NoResp, <<>>)

\* RecipeViewSet.download_shopping_cart (IsAuthenticated)
download_shopping_cart ==
    /\ read = NoRead
    /\ \E u \in Viewers :
          read' = IF u = Anonymous
                  THEN ReadResp("download_shopping_cart", u, NoParams, "none",
                                Unauthorized, <<>>)
                  ELSE ReadResp("download_shopping_cart", u, NoParams, "none",
                                Ok, aggregate(u))
    /\ UNCHANGED <<favorites, shopping_cart, subscriptions, recipes, treq,
                   wreq, vin, vout>>

\* RecipeViewSet.list: RecipeListSerializer(queryset, many=True)
list ==
    /\ read = NoRead
    /\ \E viewer \in Viewers, params \in AllParams :
          LET ids == get_queryset(viewer, params) IN
          read' = ReadResp("list", viewer, params, "none", Ok,
                           [j \in DOMAIN ids |-> Project(ids[j], viewer)])
    /\ UNCHANGED <<favorites, shopping_cart, subscriptions, recipes, treq,
                   wreq, vin, vout>>

\* RecipeViewSet.retrieve: RecipeListSerializer(get_object())
retrieve ==
    /\ read = NoRead
    /\ \E viewer \in Viewers, id \in RecipeIds :
          read' = IF ~RecipeExists(id)
                  THEN ReadResp("retrieve", viewer, NoParams, id, Http404,
                                <<>>)
                  ELSE ReadResp("retrieve", viewer, NoParams, id, Ok,
                                <<Project(id, viewer)>>)
    /\ UNCHANGED <<favorites, shopping_cart, subscriptions, recipes, treq,
                   wreq, vin, vout>>

\* The response is sent.
ReadRespond ==
    /\ read # NoRead
    /\ read' = NoRead
    /\ UNCHANGED <<favorites, shopping_cart, subscriptions, recipes, treq,
                   wreq, vin, vout>>

\* serializer.is_valid() on its own -------------------------------------
is_valid ==
    /\ ~vout.done
    /\ vout' = [done |-> TRUE,
                errors |-> run_validation(vin.data, vin.partial)]
    /\ UNCHANGED <<favorites, shopping_cart, subscriptions, recipes, treq,
                   wreq, vin, read>>

\* ================================================================ specs
SampleRecipe == Recipe("u2", 1, {"t1"}, <<Row("i1", 1)>>)

\* The store holds one recipe (r2, by u2) and no join row; r1 is the key
\* the next created recipe gets.
InitStore ==
    /\ favorites = EmptyTable(RecipeIds)
    /\ shopping_cart = EmptyTable(RecipeIds)
    /\ subscriptions = EmptyTable(Users)
    /\ recipes = [id \in RecipeIds |->
                     IF id = "r2" THEN SampleRecipe ELSE NoRecipe]
    /\ treq = [r \in Reqs |-> IdleT]
    /\ wreq = [r \in Reqs |-> IdleW]
    /\ read = NoRead

Init ==
    /\ InitStore
    /\ vin = [data |-> NoData, partial |-> FALSE]
    /\ vout = [done |-> FALSE, errors |-> {}]

\* Concurrent toggle requests: the steps of the handlers interleave freely.
Next ==
    \E r \in Reqs :
        \/ favorite_check(r)
        \/ favorite_create(r)
        \/ favorite_delete(r)
        \/ shopping_cart_check(r)
        \/ shopping_cart_get_or_create(r)
        \/ shopping_cart_delete(r)
        \/ subscribe_check(r)
        \/ subscribe_create(r)
        \/ subscribe_delete(r)
        \/ ToggleRespond(r)

Spec == Init /\ [][Next]_vars

\* One request at a time: a handler runs from its first step to its response
\* before the next one starts.
Alone(r) ==
    \A q \in Reqs \ {r} : treq[q].pc = "idle" /\ wreq[q].pc = "idle"

NextSeq ==
    \E r \in Reqs :
        \/ Alone(r) /\ favorite_check(r)
        \/ Alone(r) /\ favorite_create(r)
        \/ Alone(r) /\ favorite_delete(r)
        \/ Alone(r) /\ shopping_cart_check(r)
        \/ Alone(r) /\ shopping_cart_get_or_create(r)
        \/ Alone(r) /\ shopping_cart_delete(r)
        \/ Alone(r) /\ subscribe_check(r)
        \/ Alone(r) /\ subscribe_create(r)
        \/ Alone(r) /\ subscribe_delete(r)
        \/ Alone(r) /\ ToggleRespond(r)

SpecSeq == Init /\ [][NextSeq]_vars

\* Recipe writes, served by one worker, one request at a time; the worker
\* may die at any step, and every state between two steps is one a
\* concurrent read observes.
NextWrite ==
    \E r \in WriteWorkers :
        \/ Alone(r) /\ create_validate(r)
        \/ Alone(r) /\ create_recipe(r)
        \/ Alone(r) /\ create_set_tags(r)
        \/ Alone(r) /\ create_ingredient(r)
        \/ Alone(r) /\ create_respond(r)
        \/ Alone(r) /\ update_validate(r)
        \/ Alone(r) /\ update_set_tags(r)
        \/ Alone(r) /\ update_clear(r)
        \/ Alone(r) /\ update_ingredient(r)
        \/ Alone(r) /\ update_save(r)
        \/ Alone(r) /\ update_respond(r)
        \/ Alone(r) /\ Crash(r)
        \/ Alone(r) /\ WriteRespond(r)

SpecWrite == Init /\ [][NextWrite]_vars

\* Validation alone, over every request body within the bounds.
InitValidate ==
    /\ InitStore
    /\ vin \in [data : Inputs, partial : BOOLEAN]
    /\ vout = [done |-> FALSE, errors |-> {}]

NextValidate == is_valid

SpecValidate == InitValidate /\ [][NextValidate]_vars

\* Reads over the stores that writes and toggles lead to: every recipe
\* stored is one a create leaves behind, and a join table has at most one
\* row for a pair and none for a recipe that is not stored.
ValidRows ==
    {s \in SeqsUpTo([id : Ingredients, amount : 1..MaxAmount],
                    Cardinality(Ingredients)) :
        s # <<>> /\ ~HasDuplicates([j \in DOMAIN s |-> s[j].id])}

JoinTables ==
    {t \in [Users \X RecipeIds -> 0..1] :
        \A k \in Users \X RecipeIds : t[k] > 0 => RecipeExists(k[2])}

InitIdle ==
    /\ subscriptions = EmptyTable(Users)
    /\ treq = [r \in Reqs |-> IdleT]
    /\ wreq = [r \in Reqs |-> IdleW]
    /\ read = NoRead
    /\ vin = [data |-> NoData, partial |-> FALSE]
    /\ vout = [done |-> FALSE, errors |-> {}]

\* The shopping list, over recipes with every valid list of ingredient
\* rows and every cart.
InitCart ==
    /\ recipes \in [RecipeIds ->
                       {NoRecipe} \cup
                       {Recipe("u1", 1, {"t1"}, rows) : rows \in ValidRows}]
    /\ favorites = EmptyTable(RecipeIds)
    /\ shopping_cart \in JoinTables
    /\ InitIdle

NextCart ==
    \/ download_shopping_cart
    \/ ReadRespond

SpecCart == InitCart /\ [][NextCart]_vars

\* The recipe list and the recipe detail, over recipes of two authors with
\* every tag set, every set of favorites and every cart.
InitRead ==
    /\ recipes \in
          {[id \in RecipeIds |-> IF id = "r1" THEN a ELSE b] :
              a \in {NoRecipe} \cup
                    {Recipe("u1", 1, ts, <<Row("i1", 1)>>) :
                        ts \in SUBSET Tags \ {{}}},
              b \in {NoRecipe} \cup
                    {Recipe("u2", 1, ts, <<Row("i1", 1)>>) :
                        ts \in SUBSET Tags \ {{}}}}
    /\ favorites \in JoinTables
    /\ shopping_cart \in JoinTables
    /\ InitIdle

NextRead ==
    \/ list
    \/ retrieve
    \/ ReadRespond

SpecRead == InitRead /\ [][NextRead]_vars

\* Requests that change or delete a stored recipe, served by one worker,
\* interleaved with the favorite and shopping-cart toggles of two others.
NextDelete ==
    \/ \E r \in Reqs :
          \/ favorite_check(r)
          \/ favorite_create(r)
          \/ favorite_delete(r)
          \/ shopping_cart_check(r)
          \/ shopping_cart_get_or_create(r)
          \/ shopping_cart_delete(r)
          \/ ToggleRespond(r)
    \/ \E w \in WriteWorkers :
          \/ update_validate(w)
          \/ update_put(w)
          \/ destroy_check(w)
          \/ destroy_delete(w)
          \/ WriteRespond(w)

SpecDelete == Init /\ [][NextDelete]_vars

\* ------------------------------------------------------ toggle claims
TableOf(rel) ==
    IF rel = "favorite" THEN favorites
    ELSE IF rel = "shopping_cart" THEN shopping_cart
    ELSE subscriptions

TableOfNext(rel) ==
    IF rel = "favorite" THEN favorites'
    ELSE IF rel = "shopping_cart" THEN shopping_cart'
    ELSE subscriptions'

TargetOk(q) ==
    IF q.rel = "subscribe"
    THEN q.target \in Users /\ q.target # q.user
    ELSE RecipeExists(q.target)

\* C1: with the calls of a series run one after the other, the outcome of a
\* toggle call on an existing target is decided by the existence of the
\* (actor, target) row alone: add creates the row and answers 201 iff no row
\* exists, and otherwise answers Conflict (400) and leaves the row; remove
\* deletes the row and answers 204 iff a row exists, and otherwise answers
\* NotFound (400).  So a second identical add fails with Conflict and a
\* second identical remove with NotFound.
C1_OutcomeByRowExistence ==
    [][\A r \in Reqs :
         (treq[r].pc # "done" /\ treq'[r].pc = "done" /\ TargetOk(treq'[r])) =>
            LET q == treq'[r]
                k == <<q.user, q.target>>
                had == TableOf(q.rel)[k] > 0
            IN  IF q.method = "POST"
                THEN IF had
                     THEN q.resp = Conflict
                          /\ TableOfNext(q.rel) = TableOf(q.rel)
                     ELSE q.resp = Created
                          /\ TableOfNext(q.rel) =
                                [TableOf(q.rel) EXCEPT ![k] = 1]
                ELSE IF had
                     THEN q.resp = NoContent
                          /\ TableOfNext(q.rel) =
                                [TableOf(q.rel) EXCEPT ![k] = 0]
                     ELSE q.resp = NotFound
                          /\ TableOfNext(q.rel) = TableOf(q.rel)]_vars

\* A second add has failed with Conflict while the row of the first is there.
C1_Witness ==
    \E r \in Reqs :
        /\ treq[r].pc = "done"
        /\ treq[r].method = "POST"
        /\ treq[r].resp = Conflict
        /\ TableOf(treq[r].rel)[<<treq[r].user, treq[r].target>>] = 1

\* C2: an add request, whatever other identical add runs alongside it, ends
\* either with 201 having inserted the row, or with Conflict (400): it never
\* answers 201 without inserting and never ends in another error.
C2_ConcurrentAddOutcome ==
    \A r \in Reqs :
        (treq[r].pc = "done" /\ treq[r].method = "POST" /\ TargetOk(treq[r])) =>
            \/ treq[r].resp = Created /\ treq[r].changed = 1
            \/ treq[r].resp = Conflict

\* C3: no (user, target) pair has more than one row in Favorite, in
\* ShoppingCart or in Subscription, under any interleaving.
C3_UniqueRows ==
    /\ \A k \in Users \X RecipeIds : favorites[k] <= 1 /\ shopping_cart[k] <= 1
    /\ \A k \in Users \X Users : subscriptions[k] <= 1

\* Two adds of one pair are both past their existence check, one has inserted.
C3_Witness ==
    \E r \in Reqs, q \in Reqs :
        /\ r # q
        /\ treq[r].pc = "create"
        /\ treq[q].pc = "done" /\ treq[q].resp = Created
        /\ treq[q].rel = treq[r].rel
        /\ treq[q].user = treq[r].user /\ treq[q].target = treq[r].target
        /\ TableOf(treq[r].rel)[<<treq[r].user, treq[r].target>>] = 1

\* C4: subscribe(u, u) answers InvalidOperation (400) for POST and for
\* DELETE, changing no row, whatever rows exist; and no Subscription row
\* with user = subscribed_to ever exists.
C4_SelfSubscribe ==
    /\ \A r \in Reqs :
          (treq[r].rel = "subscribe" /\ treq[r].user = treq[r].target) =>
              /\ treq[r].pc = "done"
              /\ treq[r].resp = InvalidOperation
              /\ treq[r].changed = 0
    /\ \A u \in Users : subscriptions[<<u, u>>] = 0

\* A self-unsubscribe has been refused while the user follows someone.
C4_Witness ==
    \E r \in Reqs :
        /\ treq[r].rel = "subscribe" /\ treq[r].method = "DELETE"
        /\ treq[r].user = treq[r].target
        /\ treq[r].resp = InvalidOperation
        /\ \E v \in Users : subscriptions[<<treq[r].user, v>>] = 1

\* ------------------------------------------------------- write claims
\* The recipe a write request is to leave behind.
PostImage(q) ==
    Recipe(IF q.method = "POST" THEN q.user ELSE q.instance.author,
           IF q.data.has_cooking_time THEN q.data.cooking_time
           ELSE q.instance.cooking_time,
           IF q.data.has_tags THEN Range(q.data.tags) ELSE q.instance.tags,
           IF q.data.has_ingredients THEN q.data.ingredients
           ELSE q.instance.ingredients)

\* C5: while a create or update is under way, and after it has stopped at
\* any step, the stored recipe is either what it was before the write
\* (absent, for a create) or the complete result of the write.
C5_AllOrNothing ==
    \A r \in Reqs :
        (wreq[r].id \in RecipeIds
         /\ (wreq[r].pc \in Writing \/ wreq[r].resp = Crashed)) =>
            recipes[wreq[r].id] \in {wreq[r].instance, PostImage(wreq[r])}

\* C6: every stored recipe has at least one tag, at least one ingredient
\* row, no two rows of one ingredient, cooking_time >= 1 and every
\* amount >= 1 (its tags are a set, so no tag repeats).
C6_RecipeInvariant ==
    \A id \in RecipeIds :
        RecipeExists(id) =>
            /\ recipes[id].tags # {}
            /\ Len(recipes[id].ingredients) >= 1
            /\ ~HasDuplicates([j \in DOMAIN recipes[id].ingredients |->
                                  recipes[id].ingredients[j].id])
            /\ recipes[id].cooking_time >= 1
            /\ \A j \in DOMAIN recipes[id].ingredients :
                  recipes[id].ingredients[j].amount >= 1

C7_Invalid(d) ==
    \/ d.has_tags /\ d.tags = <<>>
    \/ d.has_ingredients /\ d.ingredients = <<>>
    \/ HasDuplicates(d.tags)
    \/ HasDuplicates([j \in DOMAIN d.ingredients |-> d.ingredients[j].id])
    \/ \E j \in DOMAIN d.ingredients : d.ingredients[j].amount < 1
    \/ d.has_cooking_time /\ d.cooking_time < 1

\* C7: a create, or an update of an existing recipe by its author, whose
\* body has an empty tags list, an empty ingredients list, a repeated tag,
\* a repeated ingredient, an amount < 1 or cooking_time < 1 is answered
\* with ValidationError (400) in its first step, which leaves the recipes
\* with their tags and ingredient rows, and every join table, as they were.
C7_InvalidInputRejected ==
    [][\A r \in Reqs :
         (wreq[r].pc = "idle" /\ wreq'[r].pc # "idle"
          /\ C7_Invalid(wreq'[r].data)) =>
            /\ wreq'[r].pc = "done"
            /\ wreq'[r].resp = ValidationError
            /\ recipes' = recipes
            /\ Tables' = Tables]_vars

\* An update that repeats an ingredient has been refused.
C7_Witness ==
    \E r \in Reqs :
        /\ wreq[r].pc = "done" /\ wreq[r].method = "PATCH"
        /\ wreq[r].resp = ValidationError
        /\ HasDuplicates([j \in DOMAIN wreq[r].data.ingredients |->
                             wreq[r].data.ingredients[j].id])
        /\ RecipeExists(wreq[r].id)

AllPresent(d) == d.has_tags /\ d.has_ingredients /\ d.has_cooking_time

\* The one error the order tags, ingredients, cooking_time would report.
C8_EarliestRule(d) ==
    IF d.tags = <<>> THEN {"tags_empty"}
    ELSE IF HasDuplicates(d.tags) THEN {"tags_duplicate"}
    ELSE IF d.ingredients = <<>> THEN {"ingredients_empty"}
    ELSE IF HasDuplicates([j \in DOMAIN d.ingredients |->
                              d.ingredients[j].id])
    THEN {"ingredients_duplicate"}
    ELSE IF \E j \in DOMAIN d.ingredients : d.ingredients[j].amount < 1
    THEN {"amount_positive"}
    ELSE IF d.cooking_time < 1 THEN {"cooking_time_min"}
    ELSE {}

C8_FieldFailures(d) ==
    (IF d.tags = <<>> THEN {"tags_empty"}
     ELSE IF HasDuplicates(d.tags) THEN {"tags_duplicate"} ELSE {})
    \cup (IF \E j \in DOMAIN d.ingredients : d.ingredients[j].amount < 1
          THEN {"amount_positive"} ELSE {})
    \cup (IF d.cooking_time < 1 THEN {"cooking_time_min"} ELSE {})

C9_Valid(d) ==
    /\ AllPresent(d)
    /\ d.tags # <<>> /\ ~HasDuplicates(d.tags)
    /\ d.ingredients # <<>>
    /\ ~HasDuplicates([j \in DOMAIN d.ingredients |-> d.ingredients[j].id])
    /\ \A j \in DOMAIN d.ingredients : d.ingredients[j].amount >= 1
    /\ d.cooking_time >= 1

Pairs(seq) == [j \in DOMAIN seq |-> <<seq[j].id, seq[j].amount>>]

C10_UpdateReplaces ==
    \A r \in Reqs :
        (wreq[r].pc = "done" /\ wreq[r].method = "PATCH"
         /\ wreq[r].resp = Ok) =>
            /\ wreq[r].data.has_tags /\ wreq[r].data.has_ingredients
            /\ recipes[wreq[r].id].tags = Range(wreq[r].data.tags)
            /\ Len(recipes[wreq[r].id].ingredients) =
                  Len(wreq[r].data.ingredients)
            /\ Range(Pairs(recipes[wreq[r].id].ingredients)) =
                  Range(Pairs(wreq[r].data.ingredients))

\* An update has dropped a tag and an ingredient the recipe had, and has
\* changed the amount of an ingredient it keeps.
C10_Witness ==
    \E r \in Reqs :
        /\ wreq[r].pc = "done" /\ wreq[r].method = "PATCH"
        /\ wreq[r].resp = Ok
        /\ wreq[r].instance.tags \ Range(wreq[r].data.tags) # {}
        /\ \E j \in DOMAIN wreq[r].instance.ingredients :
              \A k \in DOMAIN wreq[r].data.ingredients :
                  wreq[r].data.ingredients[k].id #
                      wreq[r].instance.ingredients[j].id
        /\ \E j \in DOMAIN wreq[r].instance.ingredients :
              \E k \in DOMAIN wreq[r].data.ingredients :
                  /\ wreq[r].data.ingredients[k].id =
                        wreq[r].instance.ingredients[j].id
                  /\ wreq[r].data.ingredients[k].amount #
                        wreq[r].instance.ingredients[j].amount

\* -------------------------------------------------------- read claims
\* The recipes in the cart of a user.
CartOf(u) == {id \in RecipeIds : shopping_cart[<<u, id>>] > 0}

\* The ingredients that occur in a recipe of the set.
IngredientsIn(ids) ==
    UNION {{recipes[id].ingredients[j].id :
               j \in DOMAIN recipes[id].ingredients} : id \in ids}

\* The amount a recipe has of an ingredient (0 when it has none).
AmountIn(id, i) ==
    Sum([j \in DOMAIN recipes[id].ingredients |->
            IF recipes[id].ingredients[j].id = i
            THEN recipes[id].ingredients[j].amount ELSE 0],
        DOMAIN recipes[id].ingredients)

\* C11: the shopping list of a user has exactly one line for each
\* ingredient that occurs in a recipe of the user's cart, the lines are in
\* the order of the ingredient names, and the total of a line is the sum of
\* the amounts of that ingredient over the recipes of the user's cart and of
\* no other recipe; an empty cart gives an empty list.
C11_Aggregate ==
    (read.op = "download_shopping_cart" /\ read.resp = Ok) =>
        LET u == read.viewer
            lines == read.result
        IN  /\ {lines[j].name : j \in DOMAIN lines} =
                  {IngredientName[i] : i \in IngredientsIn(CartOf(u))}
            /\ Len(lines) = Cardinality(IngredientsIn(CartOf(u)))
            /\ \A j \in DOMAIN lines, k \in DOMAIN lines :
                  j < k => NameRank(lines[j].name) < NameRank(lines[k].name)
            /\ \A j \in DOMAIN lines :
                  \E i \in Ingredients :
                      /\ lines[j].name = IngredientName[i]
                      /\ lines[j].unit = MeasurementUnit[i]
                      /\ lines[j].total =
                            Sum([id \in CartOf(u) |-> AmountIn(id, i)],
                                CartOf(u))
            /\ CartOf(u) = {} => lines = <<>>

\* A user with both recipes in the cart, which share an ingredient, has
\* downloaded a list of two lines while the other user's cart holds one of
\* the recipes.
C11_Witness ==
    /\ read.op = "download_shopping_cart" /\ read.resp = Ok
    /\ CartOf(read.viewer) = RecipeIds
    /\ \E v \in Users : v # read.viewer /\ CartOf(v) # {}
    /\ Len(read.result) = 2
    /\ \E j \in DOMAIN read.result :
          read.result[j].total > MaxAmount

\* The ids of the recipes a list response shows, in its order.
ListedIds == [j \in DOMAIN read.result |-> read.result[j].id]

\* The recipes that meet every condition of the parameters on their own.
Meets(viewer, p, id) ==
    /\ RecipeExists(id)
    /\ (p.is_favorited /\ viewer \in Users) => favorites[<<viewer, id>>] > 0
    /\ (p.is_in_shopping_cart /\ viewer \in Users) =>
          shopping_cart[<<viewer, id>>] > 0
    /\ p.author # NoUser => recipes[id].author = p.author
    /\ p.tags # {} => \E t \in recipes[id].tags : TagSlug[t] \in p.tags

\* C12: the recipe list shows exactly the recipes that meet every given
\* condition (favorited by the viewer, in the viewer's cart, of the author,
\* carrying at least one of the given tags), each recipe once whatever the
\* number of tags it matches; is_favorited and is_in_shopping_cart restrict
\* nothing for an unauthenticated viewer.
C12_FilterComposition ==
    read.op = "list" =>
        /\ ~HasDuplicates(ListedIds)
        /\ Range(ListedIds) =
              {id \in RecipeIds : Meets(read.viewer, read.params, id)}

\* A list filtered by is_favorited and two tags shows once a favorite that
\* carries both tags, and leaves out a recipe with one of the tags that is
\* no favorite of the viewer.
C12_Witness ==
    /\ read.op = "list" /\ read.viewer \in Users
    /\ read.params.is_favorited /\ read.params.tags = Slugs
    /\ read.params.author = NoUser /\ ~read.params.is_in_shopping_cart
    /\ Len(read.result) = 1
    /\ recipes[read.result[1].id].tags = Tags
    /\ \E id \in RecipeIds :
          /\ RecipeExists(id) /\ id # read.result[1].id
          /\ favorites[<<read.viewer, id>>] = 0

\* The flags of a projection are the rows of its viewer on its recipe.
FlagsTrackRows(view, viewer) ==
    /\ view.is_favorited =
          (viewer \in Users /\ favorites[<<viewer, view.id>>] > 0)
    /\ view.is_in_shopping_cart =
          (viewer \in Users /\ shopping_cart[<<viewer, view.id>>] > 0)

\* C14: in every projection of a recipe that a list, a detail read or the
\* echo of a create or update shows, is_favorited is true iff the viewer
\* has a Favorite row on the recipe and is_in_shopping_cart is true iff the
\* viewer has a ShoppingCart row on it, both false for an unauthenticated
\* viewer; and the step that computes a projection changes no table and no
\* recipe.
C14_FlagsTrackRows ==
    /\ [](/\ (read.op \in {"list", "retrieve"} /\ read.resp = Ok) =>
                \A j \in DOMAIN read.result :
                    FlagsTrackRows(read.result[j], read.viewer)
          /\ \A r \in Reqs :
                (wreq[r].pc = "done" /\ wreq[r].resp \in {Created, Ok}) =>
                    FlagsTrackRows(wreq[r].body, wreq[r].user))
    /\ [][(read' # read \/ \E r \in Reqs : wreq'[r].body # wreq[r].body) =>
             /\ Tables' = Tables
             /\ recipes' = recipes]_vars

\* A detail read shows a recipe as a favorite of its viewer and outside the
\* viewer's cart, while another user has it in the cart and not as a
\* favorite.
C14_Witness ==
    /\ read.op = "retrieve" /\ read.resp = Ok
    /\ read.viewer \in Users
    /\ read.result[1].is_favorited /\ ~read.result[1].is_in_shopping_cart
    /\ \E u \in Users :
          /\ shopping_cart[<<u, read.id>>] > 0
          /\ favorites[<<u, read.id>>] = 0

\* ------------------------------------------- authorship and deletion
\* C13: every PATCH, PUT or DELETE of a stored recipe by a user who is not
\* its author is answered with 403 and leaves the recipe with its tags and
\* ingredient rows as they were; and no step changes the author of a
\* recipe.
C13_OnlyAuthorMutates ==
    [][/\ \A r \in Reqs :
             (/\ wreq[r].pc = "idle" /\ wreq'[r].pc # "idle"
              /\ wreq'[r].method \in {"PATCH", "PUT", "DELETE"}
              /\ RecipeExists(wreq'[r].id)
              /\ recipes[wreq'[r].id].author # wreq'[r].user) =>
                 /\ wreq'[r].resp = Forbidden
                 /\ recipes' = recipes
       /\ \A id \in RecipeIds :
             (RecipeExists(id) /\ recipes'[id].author # NoUser) =>
                 recipes'[id].author = recipes[id].author]_vars

\* C15: a toggle call that answers 201 or 204 has inserted, or deleted,
\* exactly one row, whatever runs alongside it.
C15_SuccessChangedOneRow ==
    \A r \in Reqs :
        (treq[r].pc = "done" /\ treq[r].resp \in {Created, NoContent}) =>
            treq[r].changed = 1

\* C16: an update by the author that leaves out tags or ingredients, and
\* whose other fields are valid, answers 200, leaves the tags (the
\* ingredient rows) it left out as they were and applies what it supplies.
C16_PartialUpdate ==
    \A r \in Reqs :
        (/\ wreq[r].pc = "done" /\ wreq[r].method = "PATCH"
         /\ wreq[r].resp \notin {Http404, Forbidden, Crashed}
         /\ ~wreq[r].data.has_tags \/ ~wreq[r].data.has_ingredients
         /\ ~C7_Invalid(wreq[r].data)) =>
            /\ wreq[r].resp = Ok
            /\ recipes[wreq[r].id] = PostImage(wreq[r])

\* The total a shopping list is to show for an ingredient when only the
\* stored recipes of the cart count.
StoredTotal(u, i) ==
    Sum([id \in CartOf(u) |-> IF RecipeExists(id) THEN AmountIn(id, i) ELSE 0],
        CartOf(u))

\* C17: a recipe that is not stored (never created, or deleted) has no
\* IngredientInRecipe row, no tag link, no Favorite row and no ShoppingCart
\* row, in every state; it is in no user's list of favorites, and every
\* total of every user's shopping list counts stored recipes only.
C17_ReferentialIntegrity ==
    /\ \A id \in RecipeIds :
          ~RecipeExists(id) =>
              /\ recipes[id].ingredients = <<>>
              /\ recipes[id].tags = {}
              /\ \A u \in Users :
                    /\ favorites[<<u, id>>] = 0
                    /\ shopping_cart[<<u, id>>] = 0
                    /\ id \notin Range(get_queryset(
                                        u, Params(TRUE, FALSE, NoUser, {})))
    /\ \A u \in Users :
          \A j \in DOMAIN aggregate(u) :
              \E i \in Ingredients :
                  /\ aggregate(u)[j].name = IngredientName[i]
                  /\ aggregate(u)[j].total = StoredTotal(u, i)

\* A recipe has been deleted between the existence check and the INSERT of
\* an add, which the database has then refused.
C17_Witness ==
    \E r \in Reqs, w \in Reqs :
        /\ treq[r].pc = "done" /\ treq[r].resp = IntegrityError
        /\ ~RecipeExists(treq[r].target)
        /\ wreq[w].method = "DELETE" /\ wreq[w].resp = NoContent
        /\ wreq[w].id = treq[r].target

====
